---- MODULE Spec2Model ----
(***************************************************************************)
(* A model of the ledger execution core (state.applyTransaction and        *)
(* state.doApplyTransaction over the account store) and of the peer        *)
(* request handlers of the node block.                                     *)
(***************************************************************************)
EXTENDS Integers, Sequences, FiniteSets, TLC

(***************************************************************************)
(* Bounds of the model.                                                    *)
(***************************************************************************)
\* Most transactions in the tree of one applyTransaction call.
MaxTx == 4
\* A new applyTransaction call starts only while the stored nonces add up to
\* less than this.
MaxNonce == 2
\* View ids are uint64 in the code; the model keeps them in this many bits.
ViewBits == 2

(***************************************************************************)
(* Values.                                                                 *)
(***************************************************************************)
\* Hex encoded public keys that transactions name as their sender, and a
\* sender string that hex.DecodeString rejects.
HexSenders == {"aa", "bb"}
BadHex == "zz"
\* The bytes hex.DecodeString gives for each of them (0xaa, 0xbb).
HexTable == ("aa" :> 170) @@ ("bb" :> 187)
PublicKeys == {HexTable[h] : h \in HexSenders}
\* tx.Tag values; "nop" is the tag doApplyTransaction tests for.
Tags == {"nop", "transfer"}
\* tx.Nonce values: the code only tests tx.Nonce == 0.
TxNonces == {0, 1}
\* The registered services, in registration order (state.services).
services == <<"transfer", "contract">>

BucketAccounts == "account_"

\* Keys and values of an account's state; NoValue is a key never stored.
StateKeys == {"k"}
NoValue == 0
StateValues == {1, 2}

\* What a transaction is made of, as far as doApplyTransaction reads it.
TxTemplates == [Sender : HexSenders \cup {BadHex}, Tag : Tags, Nonce : TxNonces]

\* The transactions a service may emit as pending.
PendingTemplates ==
    {[Sender |-> "aa", Tag |-> "transfer", Nonce |-> 0],
     [Sender |-> "bb", Tag |-> "nop", Nonce |-> 0],
     [Sender |-> "bb", Tag |-> "transfer", Nonce |-> 1]}

\* The deltas a service may emit.
Deltas == [Account : {187}, Key : StateKeys, NewValue : {1}]
DeltaSeqs == {<<>>} \cup {<<d>> : d \in Deltas}
PendingSeqs == {<<>>} \cup {<<t>> : t \in PendingTemplates}

\* service.Run(tx) returns (deltas, pending, err).
RunError == [err |-> TRUE, deltas |-> <<>>, pending |-> <<>>]
RunReturns == [err : {FALSE}, deltas : DeltaSeqs, pending : PendingSeqs]
RunOutcomes == {RunError} \cup RunReturns

\* What the services return for one transaction, one outcome for each service;
\* the services after one that fails are not run.
RunSeqs ==
    {<<RunError, RunError>>} \cup {<<a, b>> : a \in RunReturns, b \in RunOutcomes}

VARIABLES
    store,      \* the key-value store: key -> bytes put under it
    storeFaulty,\* whether the store's Put may fail
    pc,         \* position of the applyTransaction call: "idle", "loop", "done"
    queue,      \* applyTransaction's local `pending` queue
    nextId,     \* number of transactions of the tree created so far, plus one
    applied,    \* the transactions doApplyTransaction was called on, in order
    before,     \* the store when the call started
    rootTx,     \* the call's argument
    result,     \* what the call returned: "nil" or an error
    last,       \* the most recent doApplyTransaction: its input and outcome
    \* Two goroutines calling applyTransaction on the same state.
    gpc,        \* goroutine -> "idle", "loop", "save", "done"
    gqueue,     \* goroutine -> its call's `pending` queue
    gtx,        \* goroutine -> the transaction its doApplyTransaction is applying
    gwork,      \* goroutine -> the `accounts` working set it is about to save
    gpending,   \* goroutine -> the pending transactions it is about to return
    gresult,    \* goroutine -> what its call returned
    groot,      \* goroutine -> its call's argument
    gcount,     \* goroutine -> the number of transactions its call has applied
    created,    \* the number of transactions of both calls' trees
    cbefore,    \* the store before the two calls
    \* The node: the ledger, the broadcaster and one connected peer.
    paused,     \* Broadcaster(node).Paused
    viewID,     \* ledger.ViewID()
    root,       \* ledger.Root()
    preferred,  \* ledger.Resolver().Preferred(), NilTx for nil
    received,   \* the ids of the transactions the ledger was given to receive
    peerUp,     \* whether the peer is connected
    handled,    \* the most recent request handled: what it read and what it sent
    syncPreferred, \* what the syncer's resolver prefers; NilTx when nothing
    recorded,   \* the root id the syncer has recorded for the peer; 0 when none
    chunkCache, \* the peer's LRU of chunks, least recently used first
    loop,       \* the receive loop of the peer: "none" or "running"
    inbox,      \* opcode -> the requests of the peer its channel holds
    seq,        \* how many requests the receive loop has received
    tasks,      \* the handler goroutines that have not sent their response
    sentLog,    \* the calls of peer.SendMessageAsync, in order
    vpc,        \* sync-view goroutine -> where it is in handleSyncViewRequest
    vreq,       \* sync-view goroutine -> req.root, and whether it is valid
    vres,       \* sync-view goroutine -> res.root
    preferLog   \* the calls of syncer.resolver.Prefer: what was preferred, the root

engineVars == <<pc, queue, nextId, applied, before, rootTx, result, last>>

concVars == <<gpc, gqueue, gtx, gwork, gpending, gresult, groot, gcount, created,
              cbefore>>

syncVars == <<syncPreferred, recorded, chunkCache>>

loopVars == <<loop, inbox, seq, tasks, sentLog>>

viewVars == <<vpc, vreq, vres, preferLog>>

nodeVars == <<paused, viewID, root, preferred, received, peerUp, handled, syncVars,
              loopVars, viewVars>>

vars == <<store, storeFaulty, engineVars, concVars, nodeVars>>

(***************************************************************************)
(* The account model.                                                      *)
(***************************************************************************)
NewAccount(key) ==
    [PublicKey |-> key, Nonce |-> 0, State |-> [k \in StateKeys |-> NoValue]]

\* account.MarshalBinary(): public key, nonce, then the state.
MarshalBinary(account) == <<account.PublicKey, account.Nonce, account.State>>

\* account.Unmarshal(bytes)
Unmarshal(bytes) == [PublicKey |-> bytes[1], Nonce |-> bytes[2], State |-> bytes[3]]

\* account.State.Store(key, value): a new version of the state.
StateStore(state, key, value) == [state EXCEPT ![key] = value]

merge(bucket, key) == <<bucket, key>>

(***************************************************************************)
(* The account store.                                                      *)
(***************************************************************************)
\* s.Get(key): the bytes, or an error when nothing is stored under key.
Get(st, key) ==
    IF key \in DOMAIN st THEN [err |-> FALSE, bytes |-> st[key]]
    ELSE [err |-> TRUE, bytes |-> <<>>]

\* s.Put(key, value): writes, or fails and leaves the store alone.
Put(st, key, value, fail) ==
    IF fail THEN [err |-> TRUE, store |-> st]
    ELSE [err |-> FALSE,
          store |-> [k \in DOMAIN st \cup {key} |-> IF k = key THEN value ELSE st[k]]]

LoadAccount(st, key) ==
    LET g == Get(st, merge(BucketAccounts, key)) IN
    IF g.err THEN [err |-> TRUE, account |-> NewAccount(key)]
    ELSE [err |-> FALSE, account |-> Unmarshal(g.bytes)]

SaveAccount(st, account, deltas, fail) ==
    Put(st, merge(BucketAccounts, account.PublicKey), MarshalBinary(account), fail)

EmptyStore == [k \in {} |-> <<>>]
EmptyAccounts == [id \in {} |-> NewAccount(id)]

\* The nonce stored for a public key; 0 when it has no record.
NonceOf(st, key) ==
    LET l == LoadAccount(st, key) IN IF l.err THEN 0 ELSE l.account.Nonce

(***************************************************************************)
(* doApplyTransaction.                                                     *)
(***************************************************************************)
\* hex.DecodeString(tx.Sender)
DecodeString(s) ==
    IF s \in DOMAIN HexTable THEN [err |-> FALSE, bytes |-> HexTable[s]]
    ELSE [err |-> TRUE, bytes |-> 0]

\* Lines 138 and 144: `deltas, pending, err := service.Run(tx)` declares a new
\* `deltas` in the scope of the loop body, and `deltas = append(deltas, deltas...)`
\* assigns to that one. The `deltas` declared at line 132 is left as it was.
AccumulateDeltas(outer, inner) == outer

\* Lines 146-148.
AccumulatePending(pendingTransactions, pending) ==
    IF Len(pending) > 0 THEN pendingTransactions \o pending ELSE pendingTransactions

\* A loop over the services that goes on to the next service after one fails.
RECURSIVE runServicesSkipsFailed(_, _, _)
runServicesSkipsFailed(runs, i, acc) ==
    IF i > Len(services) THEN acc
    ELSE LET r == runs[i] IN
         IF r.err THEN runServicesSkipsFailed(runs, i + 1,
                          [acc EXCEPT !.invoked = @ + 1])
         ELSE runServicesSkipsFailed(runs, i + 1,
                [err |-> FALSE,
                 deltas |-> AccumulateDeltas(acc.deltas, r.deltas),
                 pendingTransactions |->
                     AccumulatePending(acc.pendingTransactions, r.pending),
                 emitted |-> acc.emitted \o r.deltas,
                 invoked |-> acc.invoked + 1])

\* The loop over the services, lines 137-149, from service i on. `emitted` and
\* `invoked` record what the services returned and how many of them ran.
RECURSIVE runServices(_, _, _)
runServices(runs, i, acc) ==
    IF i > Len(services) THEN acc
    ELSE LET r == runs[i] IN
         IF r.err THEN [acc EXCEPT !.err = TRUE, !.invoked = @ + 1]
         ELSE runServices(runs, i + 1,
                [err |-> FALSE,
                 deltas |-> AccumulateDeltas(acc.deltas, r.deltas),
                 pendingTransactions |->
                     AccumulatePending(acc.pendingTransactions, r.pending),
                 emitted |-> acc.emitted \o r.deltas,
                 invoked |-> acc.invoked + 1])

\* The loop over the deltas, lines 168-184: the working set after them.
RECURSIVE applyDeltas(_, _, _)
applyDeltas(st, accounts, deltas) ==
    IF deltas = <<>> THEN accounts
    ELSE LET change == Head(deltas)
             accountID == change.Account
             l == LoadAccount(st, change.Account)
             account == IF accountID \in DOMAIN accounts THEN accounts[accountID]
                        ELSE IF l.err THEN NewAccount(change.Account)
                        ELSE l.account
             changed == [account EXCEPT
                            !.State = StateStore(@, change.Key, change.NewValue)]
         IN applyDeltas(st, (accountID :> changed) @@ accounts, Tail(deltas))

\* The outcome of doApplyTransaction up to its saves: an error, or the working
\* set of accounts to save and the pending transactions to return.
Failed(e, emitted, invoked) ==
    [err |-> e, accounts |-> EmptyAccounts, pending |-> <<>>,
     emitted |-> emitted, invoked |-> invoked]

\* A nop branch that makes the account of a first nop, as the other branch does.
nopBranchSynthesizes(st, tx, senderID) ==
    LET l == LoadAccount(st, senderID)
        account == IF l.err THEN NewAccount(senderID) ELSE l.account
    IN IF l.err /\ tx.Nonce # 0 THEN Failed("nop sender does not exist", <<>>, 0)
       ELSE [err |-> "nil",
             accounts |-> (senderID :> [account EXCEPT !.Nonce = @ + 1]),
             pending |-> <<>>, emitted |-> <<>>, invoked |-> 0]

\* Lines 119-130: a nop only increments the nonce of its sender.
nopBranch(st, tx, senderID) ==
    LET l == LoadAccount(st, senderID) IN
    IF l.err THEN Failed("nop sender does not exist", <<>>, 0)
    ELSE [err |-> "nil",
          accounts |-> (senderID :> [l.account EXCEPT !.Nonce = @ + 1]),
          pending |-> <<>>, emitted |-> <<>>, invoked |-> 0]

\* A sender load that starts from a new account whatever the store holds.
loadSenderFresh(st, tx, senderID) ==
    [err |-> FALSE, sender |-> NewAccount(senderID)]

\* A sender load that makes the missing account whatever the nonce.
loadSenderAnyNonce(st, tx, senderID) ==
    LET l == LoadAccount(st, senderID) IN
    [err |-> FALSE, sender |-> IF l.err THEN NewAccount(senderID) ELSE l.account]

\* Lines 151-164: the sender's account, loaded or made for a first transaction.
loadSender(st, tx, senderID) ==
    LET l == LoadAccount(st, senderID) IN
    IF l.err THEN
        IF tx.Nonce = 0 THEN [err |-> FALSE, sender |-> NewAccount(senderID)]
        ELSE [err |-> TRUE, sender |-> NewAccount(senderID)]
    ELSE [err |-> FALSE, sender |-> l.account]

\* Lines 132-194.
serviceBranch(st, tx, senderID, runs) ==
    LET r == runServices(runs, 1,
                [err |-> FALSE, deltas |-> <<>>, pendingTransactions |-> <<>>,
                 emitted |-> <<>>, invoked |-> 0])
        s == loadSender(st, tx, senderID)
        accounts == applyDeltas(st, (senderID :> s.sender), r.deltas)
    IN IF r.err THEN Failed("processor", r.emitted, r.invoked)
       ELSE IF s.err THEN Failed("sender does not exist", r.emitted, r.invoked)
       ELSE [err |-> "nil",
             accounts |-> [accounts EXCEPT ![senderID].Nonce = @ + 1],
             pending |-> r.pendingTransactions,
             emitted |-> r.emitted, invoked |-> r.invoked]

\* doApplyTransaction before its saves.
doApplyWork(st, tx, runs) ==
    LET d == DecodeString(tx.Sender) IN
    IF d.err THEN Failed("decode", <<>>, 0)
    ELSE IF tx.Tag = "nop" THEN nopBranch(st, tx, d.bytes)
    ELSE serviceBranch(st, tx, d.bytes, runs)

\* Lines 127 and 190-192: every account of the working set is saved with a put of
\* its own under its own key, and what SaveAccount returns is dropped. `fails`
\* are the ids whose put fails. The puts are to different keys, so the order of
\* the map iteration does not show in the store.
RECURSIVE saveAccounts(_, _, _)
saveAccounts(st, accounts, fails) ==
    IF DOMAIN accounts = {} THEN st
    ELSE LET id == CHOOSE x \in DOMAIN accounts : TRUE
             rest == [y \in DOMAIN accounts \ {id} |-> accounts[y]]
         IN saveAccounts(SaveAccount(st, accounts[id], <<>>, id \in fails).store,
                         rest, fails)

\* `saved` are the accounts SaveAccount was called on.
doApplyTransaction(st, tx, runs, fails) ==
    LET w == doApplyWork(st, tx, runs) IN
    [err |-> w.err,
     store |-> IF w.err = "nil" THEN saveAccounts(st, w.accounts, fails) ELSE st,
     pending |-> w.pending, emitted |-> w.emitted, invoked |-> w.invoked,
     saved |-> IF w.err = "nil" THEN DOMAIN w.accounts ELSE {}]

(***************************************************************************)
(* applyTransaction.                                                       *)
(***************************************************************************)
\* queue.PushBack and queue.PopFront of the FIFO queue.
PushBack(q, tx) == Append(q, tx)
\* A pop from the back: the queue used as a stack.
PopBack(q) == [front |-> q[Len(q)], rest |-> SubSeq(q, 1, Len(q) - 1)]
PopFront(q) == [front |-> Head(q), rest |-> Tail(q)]

\* Lines 100-102: the returned transactions are pushed in the order returned.
RECURSIVE pushAll(_, _)
pushAll(q, new) ==
    IF new = <<>> THEN q ELSE pushAll(PushBack(q, Head(new)), Tail(new))

\* A transaction of the tree: what the code reads of it, and where it stands in
\* the tree (the order in which it was created, how deep, out of which one).
Node(t, id, depth, parent) ==
    [Sender |-> t.Sender, Tag |-> t.Tag, Nonce |-> t.Nonce,
     id |-> id, depth |-> depth, parent |-> parent]

NoTx == Node([Sender |-> BadHex, Tag |-> "nop", Nonce |-> 0], 0, 0, 0)

NoLast == [tx |-> NoTx, pre |-> EmptyStore, err |-> "none", emitted |-> <<>>,
           invoked |-> 0, runErr |-> FALSE, returned |-> <<>>, saved |-> {},
           putFailed |-> FALSE]

\* The puts that may fail in one doApplyTransaction.
PutFailures == IF storeFaulty THEN SUBSET PublicKeys ELSE {{}}

RECURSIVE SumNonces(_, _)
SumNonces(st, keys) ==
    IF keys = {} THEN 0
    ELSE LET k == CHOOSE x \in keys : TRUE
         IN NonceOf(st, k) + SumNonces(st, keys \ {k})

Goroutines == {1, 2}

\* No goroutine has called applyTransaction.
ConcIdle ==
    /\ gpc = [g \in Goroutines |-> "idle"]
    /\ gqueue = [g \in Goroutines |-> <<>>]
    /\ gtx = [g \in Goroutines |-> NoTx]
    /\ gwork = [g \in Goroutines |-> EmptyAccounts]
    /\ gpending = [g \in Goroutines |-> <<>>]
    /\ gresult = [g \in Goroutines |-> "none"]
    /\ groot = [g \in Goroutines |-> NoTx]
    /\ gcount = [g \in Goroutines |-> 0]
    /\ created = 0

\* No call of applyTransaction in the one-call-at-a-time specification.
EngineIdle ==
    /\ pc = "idle"
    /\ queue = <<>>
    /\ nextId = 1
    /\ applied = <<>>
    /\ before = EmptyStore
    /\ rootTx = NoTx
    /\ result = "none"
    /\ last = NoLast

(***************************************************************************)
(* Values of the node.                                                     *)
(***************************************************************************)
\* uint64 arithmetic on view ids, in ViewBits bits.
ViewModulus == 2 ^ ViewBits
ViewIDs == 0..(ViewModulus - 1)
ViewMinus(a, b) == (a - b) % ViewModulus
ViewPlus(a, b) == (a + b) % ViewModulus

\* The opcodes the receive loop is followed on, and how many requests a peer
\* sends on one connection.
LoopOpcodes == {"gossip", "query"}
MaxRequests == 3

\* The goroutines that run handleSyncViewRequest, one for each request.
ViewHandlers == {1, 2}

\* syncChunkSize and the capacity of the chunk cache, scaled down.
syncChunkSize == 2
ChunkCacheSize == 2
\* The longest diff ledger.Accounts.DumpDiff returns.
MaxDiffLen == 5

\* A *wavelet.Transaction as the handlers read it; NilTx is the nil pointer.
NodeTxIDs == {1, 2}
NodeTxs == [ID : NodeTxIDs, ViewID : ViewIDs]
NilTx == [ID |-> 0, ViewID |-> 0]

\* What ledger.ReceiveTransaction returns: nil, or an error with a cause that
\* may be wrapped; errors.Cause gives the cause.
NilError == [cause |-> "nil", wrapped |-> FALSE]
VoteErrors == [cause : {"VoteAccepted", "VoteRejected"}, wrapped : BOOLEAN]
ReceiveOutcomes == {NilError} \cup VoteErrors
Cause(err) == err.cause

\* new(GossipResponse), new(QueryResponse): the zero response.
ZeroResponse == [vote |-> FALSE, preferred |-> NilTx]

\* `sends` counts the calls of peer.SendMessageAsync, `sendErr` is whether the
\* send failed and `disconnected` whether peer.DisconnectAsync was called.
NoRequest ==
    [kind |-> "none", tx |-> NilTx, paused |-> FALSE, viewID |-> 0, root |-> NilTx,
     preferred |-> NilTx, called |-> FALSE, cause |-> "nil",
     res |-> ZeroResponse, receivedBefore |-> {},
     sends |-> 0, sendErr |-> FALSE, disconnected |-> FALSE,
     syncPreferred |-> NilTx, valid |-> FALSE, recordedRoot |-> FALSE,
     diff |-> <<>>, ids |-> <<>>, chunkHash |-> 0, cacheBefore |-> <<>>]

\* Nothing has happened at the node: the ledger is at view 1 with a root of
\* view 0.
NodeIdle ==
    /\ paused = FALSE
    /\ viewID = 1
    /\ root = [ID |-> 1, ViewID |-> 0]
    /\ preferred = NilTx
    /\ received = {}
    /\ peerUp = FALSE
    /\ handled = NoRequest
    /\ syncPreferred = NilTx
    /\ recorded = 0
    /\ chunkCache = <<>>
    /\ loop = "none"
    /\ inbox = [op \in LoopOpcodes |-> 0]
    /\ seq = 0
    /\ tasks = {}
    /\ sentLog = <<>>
    /\ vpc = [g \in ViewHandlers |-> "idle"]
    /\ vreq = [g \in ViewHandlers |-> [root |-> NilTx, valid |-> FALSE]]
    /\ vres = [g \in ViewHandlers |-> NilTx]
    /\ preferLog = <<>>

Init ==
    /\ store = EmptyStore
    /\ ConcIdle
    /\ NodeIdle
    /\ cbefore = EmptyStore
    /\ storeFaulty = FALSE
    /\ EngineIdle

\* Whether one of the services returns an error from Run.
RunFails(runs) == \E i \in 1..Len(runs) : runs[i].err

\* Whether doApplyTransaction(tx) gets as far as running the services.
RunsRead(tx) == tx.Tag # "nop" /\ ~DecodeString(tx.Sender).err

\* Lines 88-90: a call of applyTransaction(tx) starts.
Call(t) ==
    /\ pc \in {"idle", "done"}
    /\ SumNonces(store, PublicKeys) < MaxNonce
    /\ pc' = "loop"
    /\ queue' = PushBack(<<>>, Node(t, 1, 0, 0))
    /\ nextId' = 2
    /\ applied' = <<>>
    /\ before' = store
    /\ rootTx' = Node(t, 1, 0, 0)
    /\ result' = "none"
    /\ last' = NoLast
    /\ UNCHANGED <<store, storeFaulty, concVars, nodeVars>>

\* Lines 92-105: one turn of the loop, and the return that follows it when
\* doApplyTransaction fails or the queue is empty.
StepGoesOn(runs, fails) ==
    /\ pc = "loop"
    /\ LET p == PopFront(queue)
           tx == p.front
           r == doApplyTransaction(store, tx, runs, fails)
           new == [i \in 1..Len(r.pending) |->
                      Node(r.pending[i], nextId + i - 1, tx.depth + 1, tx.id)]
           q == IF r.err # "nil" THEN p.rest ELSE pushAll(p.rest, new)
       IN /\ nextId + Len(r.pending) <= MaxTx + 1
          /\ fails \subseteq r.saved
          /\ store' = r.store
          /\ applied' = Append(applied, tx)
          /\ last' = [tx |-> tx, pre |-> store, err |-> r.err,
                      emitted |-> r.emitted, invoked |-> r.invoked,
                      runErr |-> RunsRead(tx) /\ RunFails(runs),
                      returned |-> r.pending, saved |-> r.saved,
                      putFailed |-> fails # {}]
          /\ queue' = q
          /\ nextId' = IF r.err # "nil" THEN nextId ELSE nextId + Len(new)
          /\ pc' = IF q = <<>> THEN "done" ELSE "loop"
          /\ result' = IF r.err # "nil" THEN r.err
                        ELSE IF q = <<>> THEN "nil" ELSE "none"
    /\ UNCHANGED <<storeFaulty, before, rootTx, concVars, nodeVars>>

Step(runs, fails) ==
    /\ pc = "loop"
    /\ LET p == PopFront(queue)
           tx == p.front
           r == doApplyTransaction(store, tx, runs, fails)
           new == [i \in 1..Len(r.pending) |->
                      Node(r.pending[i], nextId + i - 1, tx.depth + 1, tx.id)]
           q == pushAll(p.rest, new)
       IN /\ nextId + Len(r.pending) <= MaxTx + 1
          /\ fails \subseteq r.saved
          /\ store' = r.store
          /\ applied' = Append(applied, tx)
          /\ last' = [tx |-> tx, pre |-> store, err |-> r.err,
                      emitted |-> r.emitted, invoked |-> r.invoked,
                      runErr |-> RunsRead(tx) /\ RunFails(runs),
                      returned |-> r.pending, saved |-> r.saved,
                      putFailed |-> fails # {}]
          /\ IF r.err # "nil"
                THEN /\ pc' = "done"
                     /\ result' = r.err
                     /\ queue' = p.rest
                     /\ UNCHANGED nextId
                ELSE /\ queue' = q
                     /\ nextId' = nextId + Len(new)
                     /\ pc' = IF q = <<>> THEN "done" ELSE "loop"
                     /\ result' = IF q = <<>> THEN "nil" ELSE "none"
    /\ UNCHANGED <<storeFaulty, before, rootTx, concVars, nodeVars>>

Next ==
    \/ \E t \in TxTemplates : Call(t)
    \/ \E runs \in RunSeqs, fails \in PutFailures : Step(runs, fails)

Spec == Init /\ [][Next]_vars

\* The same calls over a store whose puts may fail.
InitFaulty ==
    /\ store = EmptyStore
    /\ storeFaulty = TRUE
    /\ EngineIdle
    /\ ConcIdle
    /\ cbefore = EmptyStore
    /\ NodeIdle

SpecFaulty == InitFaulty /\ [][Next]_vars

(***************************************************************************)
(* applyTransaction called by two goroutines. Nothing in applyTransaction, *)
(* doApplyTransaction, LoadAccount or SaveAccount takes a lock: a          *)
(* goroutine's loads and its saves are separate steps, and another         *)
(* goroutine's steps may come between them.                                *)
(***************************************************************************)
\* A store as earlier calls may have left it.
StoreWith(key, nonce) ==
    SaveAccount(EmptyStore, [NewAccount(key) EXCEPT !.Nonce = nonce], <<>>, FALSE).store
ConcStores == {EmptyStore, StoreWith(170, 1)}

InitConc ==
    /\ store \in ConcStores
    /\ storeFaulty = FALSE
    /\ EngineIdle
    /\ ConcIdle
    /\ NodeIdle
    /\ cbefore = store

\* Lines 88-90.
ConcCall(g, t) ==
    /\ gpc[g] = "idle"
    /\ created < MaxTx
    /\ gpc' = [gpc EXCEPT ![g] = "loop"]
    /\ gqueue' = [gqueue EXCEPT ![g] = PushBack(<<>>, Node(t, 1, 0, 0))]
    /\ groot' = [groot EXCEPT ![g] = Node(t, 1, 0, 0)]
    /\ created' = created + 1
    /\ UNCHANGED <<store, storeFaulty, engineVars, nodeVars, gtx, gwork, gpending,
                   gresult, gcount, cbefore>>

\* Lines 93-95 and 112-187: the goroutine pops a transaction and runs
\* doApplyTransaction on it up to its saves, reading the store as it is now.
ConcLoad(g, runs) ==
    /\ gpc[g] = "loop"
    /\ LET p == PopFront(gqueue[g])
           tx == p.front
           w == doApplyWork(store, tx, runs)
       IN /\ RunsRead(tx) \/ runs = <<RunError, RunError>>
          /\ created + Len(w.pending) <= MaxTx
          /\ gqueue' = [gqueue EXCEPT ![g] = p.rest]
          /\ gtx' = [gtx EXCEPT ![g] = tx]
          /\ gcount' = [gcount EXCEPT ![g] = @ + 1]
          /\ created' = created + Len(w.pending)
          /\ IF w.err # "nil"
                THEN /\ gpc' = [gpc EXCEPT ![g] = "done"]
                     /\ gresult' = [gresult EXCEPT ![g] = w.err]
                     /\ UNCHANGED <<gwork, gpending>>
                ELSE /\ gpc' = [gpc EXCEPT ![g] = "save"]
                     /\ gwork' = [gwork EXCEPT ![g] = w.accounts]
                     /\ gpending' = [gpending EXCEPT ![g] = w.pending]
                     /\ UNCHANGED gresult
    /\ UNCHANGED <<store, storeFaulty, engineVars, nodeVars, groot, cbefore>>

\* Lines 127 and 189-194, then 100-105: the goroutine saves its working set,
\* pushes the pending transactions, and returns nil when its queue is empty.
ConcSave(g, fails) ==
    /\ gpc[g] = "save"
    /\ LET tx == gtx[g]
           new == [i \in 1..Len(gpending[g]) |->
                      Node(gpending[g][i], 0, tx.depth + 1, tx.id)]
           q == pushAll(gqueue[g], new)
       IN /\ store' = saveAccounts(store, gwork[g], fails)
          /\ gqueue' = [gqueue EXCEPT ![g] = q]
          /\ gpc' = [gpc EXCEPT ![g] = IF q = <<>> THEN "done" ELSE "loop"]
          /\ gresult' = [gresult EXCEPT ![g] = IF q = <<>> THEN "nil" ELSE "none"]
    /\ gwork' = [gwork EXCEPT ![g] = EmptyAccounts]
    /\ gpending' = [gpending EXCEPT ![g] = <<>>]
    /\ UNCHANGED <<storeFaulty, engineVars, nodeVars, gtx, groot, gcount, created,
                   cbefore>>

NextConc ==
    \E g \in Goroutines :
        \/ \E t \in TxTemplates : ConcCall(g, t)
        \/ \E runs \in RunSeqs : ConcLoad(g, runs)
        \/ \E fails \in PutFailures : ConcSave(g, fails)

SpecConc == InitConc /\ [][NextConc]_vars

(***************************************************************************)
(* The node: the handlers of a peer's requests.                            *)
(***************************************************************************)
\* A gossip handler that votes yes unless the ledger rejected the transaction.
handleGossipRequestUnlessRejected(isPaused, req, outcome) ==
    IF isPaused THEN [res |-> ZeroResponse, called |-> FALSE]
    ELSE [res |-> [ZeroResponse EXCEPT !.vote = (Cause(outcome) # "VoteRejected")],
          called |-> TRUE]

\* handleGossipRequest up to its deferred send: the response, and whether
\* ledger.ReceiveTransaction was called. `outcome` is what it returns.
handleGossipRequest(isPaused, req, outcome) ==
    IF isPaused THEN [res |-> ZeroResponse, called |-> FALSE]
    ELSE [res |-> [ZeroResponse EXCEPT !.vote = (Cause(outcome) = "VoteAccepted")],
          called |-> TRUE]

\* A query handler in which the resolver's preferred transaction is looked at
\* first and the accepted transaction does not override.
handleQueryRequestNoOverride(isPaused, view, ledgerRoot, pref, req, outcome) ==
    IF isPaused THEN [res |-> ZeroResponse, called |-> FALSE]
    ELSE LET first == IF req.ViewID = ViewMinus(view, 1) THEN ledgerRoot
                      ELSE IF pref # NilTx THEN pref
                      ELSE NilTx
         IN [res |-> [ZeroResponse EXCEPT
                         !.preferred = IF first = NilTx /\ Cause(outcome) = "VoteAccepted"
                                       THEN req ELSE first],
             called |-> TRUE]

\* handleQueryRequest up to its deferred send.
handleQueryRequest(isPaused, view, ledgerRoot, pref, req, outcome) ==
    IF isPaused THEN [res |-> ZeroResponse, called |-> FALSE]
    ELSE LET first == IF req.ViewID = ViewMinus(view, 1) THEN ledgerRoot
                      ELSE IF pref # NilTx THEN pref
                      ELSE NilTx
         IN [res |-> [ZeroResponse EXCEPT
                         !.preferred = IF Cause(outcome) = "VoteAccepted"
                                       THEN req ELSE first],
             called |-> TRUE]

\* ledger.ReceiveTransaction(tx): the ledger takes the transaction in.
ReceiveTransaction(ledgerReceived, tx) == ledgerReceived \cup {tx.ID}

(***************************************************************************)
(* Sync: the root exchange, the chunked diff and the transactions by id.   *)
(***************************************************************************)
\* A handler that records the root of the peer only when it adopts it.
handleSyncViewRequestRecordsAdopted(view, ledgerRoot, syncPref, req, valid) ==
    LET first == IF syncPref = NilTx THEN ledgerRoot ELSE syncPref
        adopt == view < req.ViewID /\ syncPref = NilTx
    IN IF ~valid THEN [root |-> first, preferred |-> syncPref, recorded |-> FALSE]
       ELSE [root |-> IF adopt THEN req ELSE first,
             preferred |-> IF adopt THEN req ELSE syncPref,
             recorded |-> adopt]

\* A handler that adopts the root of the peer and still answers with ours.
handleSyncViewRequestKeepsReply(view, ledgerRoot, syncPref, req, valid) ==
    LET first == IF syncPref = NilTx THEN ledgerRoot ELSE syncPref
        adopt == view < req.ViewID /\ syncPref = NilTx
    IN IF ~valid THEN [root |-> first, preferred |-> syncPref, recorded |-> FALSE]
       ELSE [root |-> first,
             preferred |-> IF adopt THEN req ELSE syncPref,
             recorded |-> TRUE]

\* handleSyncViewRequest, lines 351-377, up to its deferred send: the root of
\* the response, what the syncer's resolver prefers afterwards, and whether
\* recordRootFromAccount was called. `valid` is whether
\* wavelet.AssertValidTransaction(req.root) returned nil.
handleSyncViewRequest(view, ledgerRoot, syncPref, req, valid) ==
    LET first == IF syncPref = NilTx THEN ledgerRoot ELSE syncPref
        adopt == view < req.ViewID /\ syncPref = NilTx
    IN IF ~valid THEN [root |-> first, preferred |-> syncPref, recorded |-> FALSE]
       ELSE [root |-> IF adopt THEN req ELSE first,
             preferred |-> IF adopt THEN req ELSE syncPref,
             recorded |-> TRUE]

\* The bytes of a diff.
Bytes == {0, 1}

\* blake2b.Sum256 of a byte string, as a number: collision-free, the digits of
\* the number in base Cardinality(Bytes) + 1 are the bytes plus one.
RECURSIVE Sum256(_)
Sum256(b) ==
    IF b = <<>> THEN 0
    ELSE Sum256(SubSeq(b, 1, Len(b) - 1)) * (Cardinality(Bytes) + 1) + b[Len(b)] + 1

\* The LRU of line 260, a sequence of entries from the least to the most
\* recently used one.
newLRU == <<>>

lruHas(cache, key) == \E i \in 1..Len(cache) : cache[i].key = key

lruWithout(cache, key) == SelectSeq(cache, LAMBDA e : e.key # key)

\* put: the entry becomes the most recently used one, and the least recently
\* used one is dropped when the cache is over its capacity.
lruPut(cache, key, value) ==
    LET c == Append(lruWithout(cache, key), [key |-> key, value |-> value])
    IN IF Len(c) > ChunkCacheSize THEN Tail(c) ELSE c

\* load: the value under the key, which becomes the most recently used one.
lruLoad(cache, key) ==
    IF lruHas(cache, key)
    THEN LET e == CHOOSE x \in {cache[i] : i \in 1..Len(cache)} : x.key = key
         IN [found |-> TRUE, value |-> e.value,
             cache |-> Append(lruWithout(cache, key), e)]
    ELSE [found |-> FALSE, value |-> <<>>, cache |-> cache]

\* A loop that puts every chunk under the hash of the whole diff.
RECURSIVE chunkLoopHashesDiff(_, _, _, _)
chunkLoopHashesDiff(diff, i, cache, chunkHashes) ==
    IF ~(i < Len(diff)) THEN [cache |-> cache, chunkHashes |-> chunkHashes]
    ELSE LET end == IF i + syncChunkSize > Len(diff) THEN Len(diff)
                    ELSE i + syncChunkSize
             chunk == SubSeq(diff, i + 1, end)
             hash == Sum256(diff)
         IN chunkLoopHashesDiff(diff, i + syncChunkSize,
                                lruPut(cache, hash, chunk),
                                Append(chunkHashes, hash))

\* A loop that lists the hash of each chunk before those of the chunks so far.
RECURSIVE chunkLoopPrepends(_, _, _, _)
chunkLoopPrepends(diff, i, cache, chunkHashes) ==
    IF ~(i < Len(diff)) THEN [cache |-> cache, chunkHashes |-> chunkHashes]
    ELSE LET end == IF i + syncChunkSize > Len(diff) THEN Len(diff)
                    ELSE i + syncChunkSize
             chunk == SubSeq(diff, i + 1, end)
             hash == Sum256(chunk)
         IN chunkLoopPrepends(diff, i + syncChunkSize,
                              lruPut(cache, hash, chunk),
                              <<hash>> \o chunkHashes)

\* The loop of lines 309-320 from offset i on: each chunk is put in the cache
\* under its hash, and the hash is appended to the list.
RECURSIVE chunkLoop(_, _, _, _)
chunkLoop(diff, i, cache, chunkHashes) ==
    IF ~(i < Len(diff)) THEN [cache |-> cache, chunkHashes |-> chunkHashes]
    ELSE LET end == IF i + syncChunkSize > Len(diff) THEN Len(diff)
                    ELSE i + syncChunkSize
             chunk == SubSeq(diff, i + 1, end)
             hash == Sum256(chunk)
         IN chunkLoop(diff, i + syncChunkSize, lruPut(cache, hash, chunk),
                      Append(chunkHashes, hash))

\* handleSyncDiffMetadataRequest, lines 304-328, up to its send. `diff` is what
\* ledger.Accounts.DumpDiff(req.viewID) returned.
handleSyncDiffMetadataRequest(cache, view, diff) ==
    LET l == chunkLoop(diff, 0, cache, <<>>) IN
    [cache |-> l.cache,
     res |-> [latestViewID |-> view, chunkHashes |-> l.chunkHashes]]

\* A chunk handler that answers found whatever the cache holds.
handleSyncDiffChunkRequestAlwaysFound(cache, chunkHash) ==
    LET l == lruLoad(cache, chunkHash) IN
    [cache |-> l.cache, res |-> [found |-> TRUE, diff |-> l.value]]

\* handleSyncDiffChunkRequest, lines 330-349, up to its send.
handleSyncDiffChunkRequest(cache, chunkHash) ==
    LET l == lruLoad(cache, chunkHash) IN
    [cache |-> l.cache,
     res |-> IF l.found THEN [found |-> TRUE, diff |-> l.value]
             ELSE [found |-> FALSE, diff |-> <<>>]]

\* ledger.FindTransaction(id): whether the ledger holds the transaction.
FindTransaction(ledgerReceived, id) == id \in ledgerReceived

\* handleSyncTransactionRequest, lines 280-302, up to its deferred send.
handleSyncTransactionRequest(ledgerReceived, ids) ==
    [transactions |->
        SelectSeq(ids, LAMBDA id : FindTransaction(ledgerReceived, id))]

\* What the node's actions leave alone.
otherVars == <<store, storeFaulty, engineVars, concVars, loopVars, viewVars>>

InitNode ==
    /\ store = EmptyStore
    /\ storeFaulty = FALSE
    /\ EngineIdle
    /\ ConcIdle
    /\ cbefore = EmptyStore
    /\ NodeIdle

\* OnBegin: a peer connects and its receive loop starts.
OnBegin ==
    /\ ~peerUp
    /\ peerUp' = TRUE
    /\ chunkCache' = newLRU
    /\ handled' = NoRequest
    /\ UNCHANGED <<paused, viewID, root, preferred, received>>
    /\ UNCHANGED <<otherVars, syncPreferred, recorded>>

\* The broadcaster is paused or resumed.
SetPaused(b) ==
    /\ paused # b
    /\ paused' = b
    /\ handled' = NoRequest
    /\ UNCHANGED <<viewID, root, preferred, received, peerUp>>
    /\ UNCHANGED <<otherVars, syncVars>>

\* Consensus finalizes a view: the ledger has a new root and the next view id,
\* and its resolver starts over.
AdvanceView(newRoot) ==
    /\ newRoot.ViewID = viewID
    /\ viewID' = ViewPlus(viewID, 1)
    /\ root' = newRoot
    /\ preferred' = NilTx
    /\ handled' = NoRequest
    /\ UNCHANGED <<paused, received, peerUp>>
    /\ UNCHANGED <<otherVars, syncVars>>

\* The ledger's resolver comes to prefer a transaction of the current view.
ResolverPrefer(tx) ==
    /\ tx.ViewID = viewID
    /\ preferred # tx
    /\ preferred' = tx
    /\ handled' = NoRequest
    /\ UNCHANGED <<paused, viewID, root, received, peerUp>>
    /\ UNCHANGED <<otherVars, syncVars>>

\* A send after which the peer is disconnected whatever came of it.
sendResponseAlwaysDisconnects(sendErr) ==
    [sends |-> 1, sendErr |-> sendErr, disconnected |-> TRUE]

\* The send of a handler, deferred or at its end: one peer.SendMessageAsync, and
\* peer.DisconnectAsync() when it returns an error.
sendResponse(sendErr) ==
    [sends |-> 1, sendErr |-> sendErr, disconnected |-> sendErr]

\* The peer after the send of a handler.
AfterSend(sendErr) == peerUp' = ~sendResponse(sendErr).disconnected

\* What `handled` keeps of the send.
Sent(h, sendErr) ==
    LET d == sendResponse(sendErr) IN
    [h EXCEPT !.sends = d.sends, !.sendErr = d.sendErr,
              !.disconnected = d.disconnected]

\* Line 265 and handleGossipRequest, lines 410-440.
HandleGossip(req, outcome, sendErr) ==
    /\ peerUp
    /\ paused => outcome = NilError
    /\ LET h == handleGossipRequest(paused, req, outcome) IN
       /\ received' = IF h.called THEN ReceiveTransaction(received, req) ELSE received
       /\ handled' = Sent([NoRequest EXCEPT
                          !.kind = "gossip", !.tx = req, !.paused = paused,
                          !.viewID = viewID, !.root = root, !.preferred = preferred,
                          !.called = h.called, !.cause = Cause(outcome),
                          !.res = h.res, !.receivedBefore = received], sendErr)
    /\ AfterSend(sendErr)
    /\ UNCHANGED <<paused, viewID, root, preferred>>
    /\ UNCHANGED <<otherVars, syncVars>>

\* Line 267 and handleQueryRequest, lines 379-408.
HandleQuery(req, outcome, sendErr) ==
    /\ peerUp
    /\ paused => outcome = NilError
    /\ LET h == handleQueryRequest(paused, viewID, root, preferred, req, outcome) IN
       /\ received' = IF h.called THEN ReceiveTransaction(received, req) ELSE received
       /\ handled' = Sent([NoRequest EXCEPT
                          !.kind = "query", !.tx = req, !.paused = paused,
                          !.viewID = viewID, !.root = root, !.preferred = preferred,
                          !.called = h.called, !.cause = Cause(outcome),
                          !.res = h.res, !.receivedBefore = received], sendErr)
    /\ AfterSend(sendErr)
    /\ UNCHANGED <<paused, viewID, root, preferred>>
    /\ UNCHANGED <<otherVars, syncVars>>

\* Line 269 and handleSyncViewRequest, lines 351-377.
HandleSyncView(req, valid, sendErr) ==
    /\ peerUp
    /\ LET h == handleSyncViewRequest(viewID, root, syncPreferred, req, valid) IN
       /\ syncPreferred' = h.preferred
       /\ recorded' = IF h.recorded THEN req.ID ELSE recorded
       /\ handled' = Sent([NoRequest EXCEPT
                          !.kind = "syncview", !.tx = req, !.viewID = viewID,
                          !.root = root, !.syncPreferred = syncPreferred,
                          !.valid = valid, !.recordedRoot = h.recorded,
                          !.res = [root |-> h.root]], sendErr)
    /\ AfterSend(sendErr)
    /\ UNCHANGED <<paused, viewID, root, preferred, received, chunkCache>>
    /\ UNCHANGED otherVars

\* The syncer's resolver starts over after a round of the syncer.
SyncerReset ==
    /\ syncPreferred # NilTx
    /\ syncPreferred' = NilTx
    /\ handled' = NoRequest
    /\ UNCHANGED <<paused, viewID, root, preferred, received, peerUp, recorded,
                   chunkCache>>
    /\ UNCHANGED otherVars

\* Line 271 and handleSyncDiffMetadataRequest, lines 304-328.
HandleSyncDiffMetadata(diff, sendErr) ==
    /\ peerUp
    /\ LET h == handleSyncDiffMetadataRequest(chunkCache, viewID, diff) IN
       /\ chunkCache' = h.cache
       /\ handled' = Sent([NoRequest EXCEPT
                          !.kind = "metadata", !.viewID = viewID, !.diff = diff,
                          !.cacheBefore = chunkCache, !.res = h.res], sendErr)
    /\ AfterSend(sendErr)
    /\ UNCHANGED <<paused, viewID, root, preferred, received, syncPreferred,
                   recorded>>
    /\ UNCHANGED otherVars

\* Line 273 and handleSyncDiffChunkRequest, lines 330-349.
HandleSyncDiffChunk(chunkHash, sendErr) ==
    /\ peerUp
    /\ LET h == handleSyncDiffChunkRequest(chunkCache, chunkHash) IN
       /\ chunkCache' = h.cache
       /\ handled' = Sent([NoRequest EXCEPT
                          !.kind = "chunk", !.chunkHash = chunkHash,
                          !.cacheBefore = chunkCache, !.res = h.res], sendErr)
    /\ AfterSend(sendErr)
    /\ UNCHANGED <<paused, viewID, root, preferred, received, syncPreferred,
                   recorded>>
    /\ UNCHANGED otherVars

\* Line 275 and handleSyncTransactionRequest, lines 280-302.
HandleSyncTransaction(ids, sendErr) ==
    /\ peerUp
    /\ handled' = Sent([NoRequest EXCEPT
                       !.kind = "synctx", !.ids = ids, !.receivedBefore = received,
                       !.res = handleSyncTransactionRequest(received, ids)],
                     sendErr)
    /\ AfterSend(sendErr)
    /\ UNCHANGED <<paused, viewID, root, preferred, received, syncVars>>
    /\ UNCHANGED otherVars

NextNode ==
    \/ OnBegin
    \/ \E b \in BOOLEAN : SetPaused(b)
    \/ \E tx \in NodeTxs : AdvanceView(tx)
    \/ \E tx \in NodeTxs : ResolverPrefer(tx)
    \/ \E req \in NodeTxs, outcome \in ReceiveOutcomes, sendErr \in BOOLEAN :
           HandleGossip(req, outcome, sendErr)
    \/ \E req \in NodeTxs, outcome \in ReceiveOutcomes, sendErr \in BOOLEAN :
           HandleQuery(req, outcome, sendErr)

SpecNode == InitNode /\ [][NextNode]_vars

(***************************************************************************)
(* One peer and the six kinds of request, on a ledger that stays at its    *)
(* view.                                                                   *)
(***************************************************************************)
\* The requests of the peer.
PeerTxs == {tx \in NodeTxs : tx.ID = 1 /\ tx.ViewID = 0}
PeerOutcomes == {o \in ReceiveOutcomes : ~o.wrapped /\ o.cause # "VoteRejected"}
PeerDiffs == {<<>>, <<1>>}
PeerHashes == {Sum256(<<0>>), Sum256(<<1>>)}
PeerIds == {<<>>, <<1>>, <<2, 1>>}

NextPeer ==
    \/ OnBegin
    \/ \E b \in BOOLEAN : SetPaused(b)
    \/ SyncerReset
    \/ \E req \in PeerTxs, outcome \in PeerOutcomes, sendErr \in BOOLEAN :
           HandleGossip(req, outcome, sendErr)
    \/ \E req \in PeerTxs, outcome \in PeerOutcomes, sendErr \in BOOLEAN :
           HandleQuery(req, outcome, sendErr)
    \/ \E req \in NodeTxs, valid \in BOOLEAN, sendErr \in BOOLEAN :
           HandleSyncView(req, valid, sendErr)
    \/ \E diff \in PeerDiffs, sendErr \in BOOLEAN :
           HandleSyncDiffMetadata(diff, sendErr)
    \/ \E chunkHash \in PeerHashes, sendErr \in BOOLEAN :
           HandleSyncDiffChunk(chunkHash, sendErr)
    \/ \E ids \in PeerIds, sendErr \in BOOLEAN :
           HandleSyncTransaction(ids, sendErr)

SpecPeer == InitNode /\ [][NextPeer]_vars

(***************************************************************************)
(* The diff exchange of one peer: metadata requests for diffs of up to     *)
(* MaxDiffLen bytes, and chunk requests.                                   *)
(***************************************************************************)
\* The diffs DumpDiff returns: n bytes that change value every k bytes.
DiffPeriods == {1, 2}
DiffOf(n, k) == [i \in 1..n |-> ((i - 1) \div k) % 2]
Diffs == {DiffOf(n, k) : n \in 0..MaxDiffLen, k \in DiffPeriods}

\* The hashes a peer asks for: those of every byte string a chunk may be, and
\* that of the empty string, which is the hash of no chunk.
ChunkHashes ==
    {Sum256(b) : b \in UNION {[1..n -> Bytes] : n \in 0..syncChunkSize}}

NextSync ==
    \/ OnBegin
    \/ \E diff \in Diffs, sendErr \in BOOLEAN :
           HandleSyncDiffMetadata(diff, sendErr)
    \/ \E chunkHash \in ChunkHashes, sendErr \in BOOLEAN :
           HandleSyncDiffChunk(chunkHash, sendErr)

SpecSync == InitNode /\ [][NextSync]_vars

(***************************************************************************)
(* The receive loop and its handler goroutines on one connection.          *)
(***************************************************************************)
\* What the receive loop and its goroutines leave alone.
loopOtherVars ==
    <<store, storeFaulty, engineVars, concVars, syncVars, paused, viewID, root,
      preferred, received, handled, viewVars>>

RECURSIVE SumOver(_, _)
SumOver(f, keys) ==
    IF keys = {} THEN 0
    ELSE LET k == CHOOSE x \in keys : TRUE IN f[k] + SumOver(f, keys \ {k})

\* OnBegin, lines 251-257: `go b.receiveLoop(...)`.
BeginLoop ==
    /\ loop = "none" /\ ~peerUp
    /\ loop' = "running"
    /\ peerUp' = TRUE
    /\ UNCHANGED <<inbox, seq, tasks, sentLog>>
    /\ UNCHANGED loopOtherVars

\* A request of the connected peer arrives on the channel of its opcode.
Arrive(op) ==
    /\ peerUp
    /\ seq + SumOver(inbox, LoopOpcodes) < MaxRequests
    /\ inbox' = [inbox EXCEPT ![op] = @ + 1]
    /\ UNCHANGED <<loop, seq, tasks, sentLog, peerUp>>
    /\ UNCHANGED loopOtherVars

\* One turn of the loop, lines 262-276: the select takes a request from one of
\* the channels that hold one, and `go handle...` starts its handler. The loop
\* has no other case and no return. `up` is whether the peer was connected.
Dispatch(op) ==
    /\ loop = "running"
    /\ inbox[op] > 0
    /\ inbox' = [inbox EXCEPT ![op] = @ - 1]
    /\ seq' = seq + 1
    /\ tasks' = tasks \cup {[op |-> op, n |-> seq + 1, up |-> peerUp]}
    /\ UNCHANGED <<loop, sentLog, peerUp>>
    /\ UNCHANGED loopOtherVars

\* A handler goroutine comes to its send, whenever it is scheduled: the send
\* fails when the peer is gone, and the handler disconnects the peer when the
\* send fails.
Finish(t, sendErr) ==
    /\ t \in tasks
    /\ ~peerUp => sendErr
    /\ tasks' = tasks \ {t}
    /\ sentLog' = Append(sentLog, [op |-> t.op, n |-> t.n, up |-> peerUp])
    /\ peerUp' = (peerUp /\ ~sendResponse(sendErr).disconnected)
    /\ UNCHANGED <<loop, inbox, seq>>
    /\ UNCHANGED loopOtherVars

\* The peer disconnects. OnEnd, lines 442-444, returns nil and does nothing:
\* the loop and the handlers go on.
OnEnd ==
    /\ peerUp
    /\ peerUp' = FALSE
    /\ UNCHANGED <<loop, inbox, seq, tasks, sentLog>>
    /\ UNCHANGED loopOtherVars

\* The handler goroutines there may be.
Tasks == [op : LoopOpcodes, n : 1..MaxRequests, up : BOOLEAN]

NextLoop ==
    \/ BeginLoop
    \/ \E op \in LoopOpcodes : Arrive(op)
    \/ \E op \in LoopOpcodes : Dispatch(op)
    \/ \E t \in Tasks, sendErr \in BOOLEAN : Finish(t, sendErr)
    \/ OnEnd

SpecLoop == InitNode /\ [][NextLoop]_vars

(***************************************************************************)
(* Sync-view handlers running together, each in its goroutine, a step for  *)
(* each of its reads and writes of the syncer.                             *)
(***************************************************************************)
\* What the sync-view goroutines leave alone.
viewOtherVars ==
    <<store, storeFaulty, engineVars, concVars, loopVars, paused, viewID, root,
      preferred, received, peerUp, handled, chunkCache>>

\* Lines 269-270: the loop of a peer receives a sync-view request and starts
\* its handler.
ViewBegin(g, req, valid) ==
    /\ vpc[g] = "idle"
    /\ vpc' = [vpc EXCEPT ![g] = "read"]
    /\ vreq' = [vreq EXCEPT ![g] = [root |-> req, valid |-> valid]]
    /\ UNCHANGED <<vres, preferLog, syncVars>>
    /\ UNCHANGED viewOtherVars

\* Lines 361-369: the first read of syncer.resolver.Preferred() picks the root
\* to answer with, and an invalid root ends the handler.
ViewRead(g) ==
    /\ vpc[g] = "read"
    /\ vres' = [vres EXCEPT ![g] = IF syncPreferred = NilTx THEN root
                                   ELSE syncPreferred]
    /\ vpc' = [vpc EXCEPT ![g] = IF vreq[g].valid THEN "check" ELSE "finish"]
    /\ UNCHANGED <<vreq, preferLog, syncVars>>
    /\ UNCHANGED viewOtherVars

\* Line 371: the condition, with the second read of Preferred().
ViewCheck(g) ==
    /\ vpc[g] = "check"
    /\ vpc' = [vpc EXCEPT ![g] =
                  IF viewID < vreq[g].root.ViewID /\ syncPreferred = NilTx
                  THEN "prefer" ELSE "finish"]
    /\ UNCHANGED <<vreq, vres, preferLog, syncVars>>
    /\ UNCHANGED viewOtherVars

\* syncer.resolver.Prefer(tx): the resolver prefers tx from then on.
Prefer(current, tx) == tx

\* Lines 372-373: res.root = req.root and syncer.resolver.Prefer(req.root).
ViewPrefer(g) ==
    /\ vpc[g] = "prefer"
    /\ vres' = [vres EXCEPT ![g] = vreq[g].root]
    /\ syncPreferred' = Prefer(syncPreferred, vreq[g].root)
    /\ preferLog' = Append(preferLog, [before |-> syncPreferred,
                                       root |-> vreq[g].root,
                                       valid |-> vreq[g].valid,
                                       view |-> viewID])
    /\ vpc' = [vpc EXCEPT ![g] = "finish"]
    /\ UNCHANGED <<vreq, recorded, chunkCache>>
    /\ UNCHANGED <<store, storeFaulty, engineVars, concVars, loopVars, paused,
                   viewID, root, preferred, received, peerUp, handled>>

\* Line 376 for a valid root, and the deferred send of lines 353-357, after
\* which the handler is over, its peer disconnected when the send failed.
ViewFinish(g, sendErr) ==
    /\ vpc[g] = "finish"
    /\ recorded' = IF vreq[g].valid THEN vreq[g].root.ID ELSE recorded
    /\ vpc' = [vpc EXCEPT ![g] = IF sendResponse(sendErr).disconnected
                                  THEN "disconnected" ELSE "done"]
    /\ UNCHANGED <<vreq, vres, preferLog, syncPreferred, chunkCache>>
    /\ UNCHANGED <<store, storeFaulty, engineVars, concVars, loopVars, paused,
                   viewID, root, preferred, received, peerUp, handled>>

NextView ==
    \/ \E g \in ViewHandlers, req \in NodeTxs, valid \in BOOLEAN :
           ViewBegin(g, req, valid)
    \/ \E g \in ViewHandlers : ViewRead(g)
    \/ \E g \in ViewHandlers : ViewCheck(g)
    \/ \E g \in ViewHandlers : ViewPrefer(g)
    \/ \E g \in ViewHandlers, sendErr \in BOOLEAN : ViewFinish(g, sendErr)

SpecView == InitNode /\ [][NextView]_vars

(***************************************************************************)
(* Properties of applyTransaction and doApplyTransaction.                  *)
(***************************************************************************)
Returned == pc = "done"
\* `last` describes a doApplyTransaction of the current call.
LastValid == last.err # "none"
LastSenderOk == ~DecodeString(last.tx.Sender).err
LastSender == DecodeString(last.tx.Sender).bytes
HasRecord(st, key) == ~LoadAccount(st, key).err

\* C1: when applyTransaction returns an error, the store holds exactly the
\* records it held before the call.
C1_UnchangedOnError == (Returned /\ result # "nil") => store = before

\* C2: after applyTransaction(T) with sender A, the stored nonce of A is at
\* least its nonce before plus 1 when the call returned nil, and equal to its
\* nonce before when the call returned an error.
C2_SenderNonce ==
    (Returned /\ ~DecodeString(rootTx.Sender).err) =>
        LET a == DecodeString(rootTx.Sender).bytes IN
        IF result = "nil" THEN NonceOf(store, a) >= NonceOf(before, a) + 1
        ELSE NonceOf(store, a) = NonceOf(before, a)

\* C3: after a non-nop transaction is applied without error, every delta a
\* service emitted for it is in the store: the account loads and its state
\* maps the delta's key to the value of the last delta emitted for that key.
C3_DeltasStored ==
    (LastValid /\ last.err = "nil" /\ last.tx.Tag # "nop") =>
        \A i \in 1..Len(last.emitted) :
            LET d == last.emitted[i] IN
            (\A j \in (i + 1)..Len(last.emitted) :
                 ~(last.emitted[j].Account = d.Account /\ last.emitted[j].Key = d.Key))
            => /\ HasRecord(store, d.Account)
               /\ LoadAccount(store, d.Account).account.State[d.Key] = d.NewValue

\* C4: a transaction given to applyTransaction whose nonce is not the nonce
\* stored for its sender (0 for a sender without a record) is rejected and leaves
\* the store as it was; so is the same transaction applied a second time.
C4_NonceMismatchRejected ==
    (LastValid /\ LastSenderOk /\ last.tx.id = 1
       /\ last.tx.Nonce # NonceOf(last.pre, LastSender)) =>
        (last.err # "nil" /\ store = last.pre)

\* The transactions applied so far whose sender is the public key a.
AppliedOf(a) ==
    {i \in 1..Len(applied) :
        /\ ~DecodeString(applied[i].Sender).err
        /\ DecodeString(applied[i].Sender).bytes = a}

C8_NopNeedsAccount ==
    (LastValid /\ last.tx.Tag = "nop"
       /\ (~LastSenderOk \/ ~HasRecord(last.pre, LastSender))) =>
        (last.err # "nil" /\ last.invoked = 0 /\ store = last.pre)

C8_Witness ==
    /\ LastValid /\ last.tx.Tag = "nop" /\ last.tx.Nonce = 0
    /\ LastSenderOk /\ ~HasRecord(last.pre, LastSender)
    /\ last.err = "nop sender does not exist"

(***************************************************************************)
(* Properties of concurrent calls of applyTransaction.                     *)
(***************************************************************************)
\* C5: two calls of applyTransaction whose transactions have the same sender,
\* each applying that one transaction and returning nil, leave the sender's
\* stored nonce exactly 2 higher than before, as either sequential order would.
C5_NoLostUpdate ==
    (/\ \A g \in Goroutines : gpc[g] = "done" /\ gresult[g] = "nil" /\ gcount[g] = 1
     /\ groot[1].Sender = groot[2].Sender) =>
        LET a == DecodeString(groot[1].Sender).bytes IN
        NonceOf(store, a) = NonceOf(cbefore, a) + 2

(***************************************************************************)
(* Properties of the gossip and query handlers.                            *)
(***************************************************************************)
\* C9: the gossip response has vote = true exactly when ReceiveTransaction was
\* called and returned VoteAccepted; when the broadcaster is paused the
\* response is the zero response, ReceiveTransaction is not called and the
\* ledger is as it was.
C9_GossipVote ==
    handled.kind = "gossip" =>
        /\ handled.res.vote <=>
               (handled.called /\ handled.cause = "VoteAccepted")
        /\ handled.called <=> ~handled.paused
        /\ handled.paused => (handled.res = ZeroResponse
                                /\ received = handled.receivedBefore)
        /\ handled.called => received = handled.receivedBefore \cup {handled.tx.ID}

C9_Witness ==
    /\ handled.kind = "gossip" /\ ~handled.paused
    /\ handled.cause = "VoteAccepted"
    /\ handled.res.vote

C9_WitnessPaused ==
    /\ handled.kind = "gossip" /\ handled.paused
    /\ handled.res = ZeroResponse /\ ~handled.called

\* The preferred transaction of a query response as the three cases give it.
QueryPreferred(h) ==
    IF h.cause = "VoteAccepted" THEN h.tx
    ELSE IF h.tx.ViewID = ViewMinus(h.viewID, 1) THEN h.root
    ELSE IF h.preferred # NilTx THEN h.preferred
    ELSE NilTx

\* C10 as stated: for every query request, ReceiveTransaction is attempted and
\* the response's preferred is the transaction when it returned VoteAccepted,
\* else the ledger root when tx.view_id = ledger.view_id - 1, else the
\* resolver's preferred transaction when there is one, else empty.
C10_QueryAsStated ==
    handled.kind = "query" =>
        (handled.called /\ handled.res.preferred = QueryPreferred(handled))

\* C10, amended: that holds for every query handled while the broadcaster is not
\* paused; while it is paused the response is the zero response and
\* ReceiveTransaction is not called.
C10_Query ==
    handled.kind = "query" =>
        IF handled.paused
        THEN /\ handled.res = ZeroResponse
             /\ ~handled.called
             /\ received = handled.receivedBefore
        ELSE /\ handled.called
             /\ received = handled.receivedBefore \cup {handled.tx.ID}
             /\ handled.res.preferred = QueryPreferred(handled)

\* A query whose transaction is of the view before the ledger's and is voted
\* for, while the resolver prefers another: the response names the transaction.
C10_Witness ==
    /\ handled.kind = "query" /\ ~handled.paused
    /\ handled.tx.ViewID = ViewMinus(handled.viewID, 1)
    /\ handled.preferred # NilTx
    /\ handled.cause = "VoteAccepted"
    /\ handled.res.preferred = handled.tx
    /\ handled.tx # handled.root


\* C17: when the Run of a processor returns an error, doApplyTransaction returns
\* that error, returns no pending transaction and calls SaveAccount on no
\* account: the store, the nonce of the sender included, is as it was before
\* the transaction.
C17_ProcessorErrorAborts ==
    (LastValid /\ last.runErr) =>
        /\ last.err = "processor"
        /\ last.returned = <<>>
        /\ last.saved = {}
        /\ store = last.pre
        /\ NonceOf(store, LastSender) = NonceOf(last.pre, LastSender)

\* The second processor fails after the first one returned deltas and a pending
\* transaction, for a sender that has a record.
C17_Witness ==
    /\ LastValid /\ last.runErr /\ last.invoked = 2
    /\ last.emitted # <<>>
    /\ HasRecord(last.pre, LastSender)
    /\ last.err = "processor"

\* C18: when a put of the store fails while an account is saved, the caller of
\* applyTransaction gets an error: applyTransaction does not return nil after a
\* put of its last doApplyTransaction failed.
C18_PutFailureSurfaced ==
    (Returned /\ LastValid /\ last.putFailed) => result # "nil"


\* C11 as stated: the root of a sync-view response is the ledger's root when
\* the syncer's resolver preferred nothing at the time of the request, and what
\* the resolver preferred otherwise; it is no other transaction.
C11_SyncViewReplyAsStated ==
    handled.kind = "syncview" =>
        handled.res.root = IF handled.syncPreferred = NilTx THEN handled.root
                           ELSE handled.syncPreferred

\* C11: the root of a sync-view response is the root of the peer when that
\* root is valid, of a later view than the ledger's and the syncer's resolver
\* preferred nothing (the handler then adopts it); otherwise it is the ledger's
\* root when the resolver preferred nothing, and what it preferred otherwise.
C11_SyncViewReply ==
    handled.kind = "syncview" =>
        handled.res.root =
            IF handled.valid /\ handled.viewID < handled.tx.ViewID
                  /\ handled.syncPreferred = NilTx
            THEN handled.tx
            ELSE IF handled.syncPreferred = NilTx THEN handled.root
            ELSE handled.syncPreferred

\* The handler adopted the root of the peer and answered with it.
C11_Witness ==
    /\ handled.kind = "syncview" /\ handled.valid
    /\ handled.syncPreferred = NilTx /\ handled.viewID < handled.tx.ViewID
    /\ handled.res.root = handled.tx /\ handled.tx # handled.root
    /\ syncPreferred = handled.tx

\* C12 as stated: every sync-view request handled has had the root of the peer
\* recorded by the syncer, on every path of the handler.
C12_RootRecordedAsStated ==
    handled.kind = "syncview" =>
        (handled.recordedRoot /\ recorded = handled.tx.ID)

\* C12: every sync-view request whose root passes AssertValidTransaction has
\* had that root recorded by the syncer for the peer; a request whose root
\* does not pass is answered and nothing is recorded for it.
C12_RootRecorded ==
    handled.kind = "syncview" =>
        IF handled.valid THEN handled.recordedRoot /\ recorded = handled.tx.ID
        ELSE ~handled.recordedRoot

\* A valid root that was not adopted, the resolver preferring another one, has
\* been recorded.
C12_Witness ==
    /\ handled.kind = "syncview" /\ handled.valid
    /\ handled.syncPreferred # NilTx /\ handled.syncPreferred # handled.tx
    /\ handled.recordedRoot /\ recorded = handled.tx.ID


ChunkAt(diff, k) ==
    SubSeq(diff, (k - 1) * syncChunkSize + 1,
           IF k * syncChunkSize > Len(diff) THEN Len(diff) ELSE k * syncChunkSize)
ChunkCount(diff) == (Len(diff) + syncChunkSize - 1) \div syncChunkSize

\* What a peer gets that sends a chunk request for each hash of a list, in
\* order, and concatenates the diffs of the responses.
RECURSIVE Fetch(_, _)
Fetch(cache, chunkHashes) ==
    IF chunkHashes = <<>> THEN <<>>
    ELSE LET h == handleSyncDiffChunkRequest(cache, Head(chunkHashes))
         IN h.res.diff \o Fetch(h.cache, Tail(chunkHashes))

\* C13: every entry of the chunk cache maps a hash to bytes that have that
\* hash; every hash of a metadata response is the hash of a chunk of the diff;
\* every chunk response with found set carries a diff whose hash is the hash
\* that was asked for.
C13_ChunkHashes ==
    /\ \A i \in 1..Len(chunkCache) :
           Sum256(chunkCache[i].value) = chunkCache[i].key
    /\ handled.kind = "metadata" =>
           \A k \in 1..Len(handled.res.chunkHashes) :
               \E j \in 1..ChunkCount(handled.diff) :
                   handled.res.chunkHashes[k] = Sum256(ChunkAt(handled.diff, j))
    /\ (handled.kind = "chunk" /\ handled.res.found) =>
           Sum256(handled.res.diff) = handled.chunkHash

\* A chunk that was cached by a metadata request has been served.
C13_Witness ==
    /\ handled.kind = "chunk" /\ handled.res.found
    /\ Len(handled.res.diff) = syncChunkSize
    /\ Len(chunkCache) = ChunkCacheSize

\* C14: a metadata response lists the hashes of the chunks of the diff in the
\* order of the diff, one for each syncChunkSize bytes and one for what is left
\* (none for an empty diff), no chunk is longer than syncChunkSize, and when
\* every listed hash is in the cache, asking for each in order and
\* concatenating the answers gives the diff.
C14_RoundTrip ==
    handled.kind = "metadata" =>
        LET hs == handled.res.chunkHashes
            d == handled.diff
        IN /\ Len(hs) = ChunkCount(d)
           /\ \A k \in 1..Len(hs) :
                  /\ hs[k] = Sum256(ChunkAt(d, k))
                  /\ Len(ChunkAt(d, k)) <= syncChunkSize
           /\ (\A k \in 1..Len(hs) : lruHas(chunkCache, hs[k])) =>
                  Fetch(chunkCache, hs) = d

\* A diff of two chunks, the second shorter than the first, all in the cache.
C14_Witness ==
    /\ handled.kind = "metadata"
    /\ Len(handled.res.chunkHashes) = 2
    /\ Len(handled.diff) = syncChunkSize + 1
    /\ \A k \in 1..2 : lruHas(chunkCache, handled.res.chunkHashes[k])
    /\ Fetch(chunkCache, handled.res.chunkHashes) = handled.diff

\* C15: the chunk cache never holds more than ChunkCacheSize entries, the
\* chunk put last is the most recently used one, and a chunk request for a
\* hash that is not in the cache, never put there or dropped from it, is
\* answered with found unset and an empty diff.
C15_CacheBound ==
    /\ Len(chunkCache) <= ChunkCacheSize
    /\ handled.kind = "metadata" =>
           LET hs == handled.res.chunkHashes IN
           /\ hs # <<>> => chunkCache[Len(chunkCache)].key = hs[Len(hs)]
           /\ \A k \in 1..Len(hs) :
                  ~lruHas(chunkCache, hs[k]) =>
                      handleSyncDiffChunkRequest(chunkCache, hs[k]).res
                          = [found |-> FALSE, diff |-> <<>>]
    /\ (handled.kind = "chunk"
          /\ ~lruHas(handled.cacheBefore, handled.chunkHash)) =>
           /\ handled.res = [found |-> FALSE, diff |-> <<>>]
           /\ chunkCache = handled.cacheBefore

\* The metadata request of a diff of more chunks than the cache holds has
\* dropped the first chunk.
C15_WitnessEvicted ==
    /\ handled.kind = "metadata"
    /\ Len(handled.res.chunkHashes) = ChunkCacheSize + 1
    /\ ~lruHas(chunkCache, handled.res.chunkHashes[1])
    /\ Len(chunkCache) = ChunkCacheSize

\* A chunk request for the hash of a chunk that a full cache does not hold has
\* been answered with found unset.
C15_Witness ==
    /\ handled.kind = "chunk" /\ ~handled.res.found
    /\ handled.chunkHash # Sum256(<<>>)
    /\ Len(handled.cacheBefore) = ChunkCacheSize
    /\ handled.res.diff = <<>>


\* C16: on one connection the responses to the requests of one opcode are
\* sent in the order in which the receive loop received the requests.
C16_ResponseOrder ==
    \A i \in 1..Len(sentLog) : \A j \in (i + 1)..Len(sentLog) :
        sentLog[i].op = sentLog[j].op => sentLog[i].n < sentLog[j].n

\* C20: once the peer has disconnected no handler sends it a response and the
\* receive loop starts no handler for a request of it.
C20_CancelledOnDisconnect ==
    /\ \A i \in 1..Len(sentLog) : sentLog[i].up
    /\ \A t \in tasks : t.up


\* C21: in every step of every sequence of applyTransaction calls, an account
\* record that is in the store is still in the store afterwards, and the
\* nonce stored for a public key does not decrease.
C21_NonceMonotone ==
    [][\A key \in PublicKeys :
          /\ HasRecord(store, key) => HasRecord(store', key)
          /\ NonceOf(store', key) >= NonceOf(store, key)]_vars

\* A transaction of a sender that had a record with a nonce above 0 was
\* accepted and the nonce of the sender is one higher, the records of the
\* other keys being as they were.
C21_Witness ==
    /\ LastValid /\ LastSenderOk /\ last.err = "nil"
    /\ HasRecord(last.pre, LastSender) /\ NonceOf(last.pre, LastSender) > 0
    /\ NonceOf(store, LastSender) = NonceOf(last.pre, LastSender) + 1
    /\ \E key \in PublicKeys \ {LastSender} :
           HasRecord(last.pre, key) /\ HasRecord(store, key)


\* What holds of applyTransaction at every moment: it has returned nil only
\* with its queue empty, and once a doApplyTransaction has returned an error
\* it has returned that error, the transactions still queued not applied.
ReturnsAtFirstError ==
    /\ (Returned /\ result = "nil") => queue = <<>>
    /\ (LastValid /\ last.err # "nil") =>
           /\ Returned /\ result = last.err
           /\ \A i \in 1..Len(queue) : \A j \in 1..Len(applied) :
                  queue[i].id # applied[j].id
    /\ (Returned /\ result # "nil") => (LastValid /\ last.err = result)

\* How far a call is from its return at most: the transactions its tree may
\* still get, and those it has queued.
Variant == (MaxTx + 1 - nextId) + Len(queue)

\* C22: a call of applyTransaction whose tree of pending transactions is
\* finite, every Run returning, returns: while it has not returned it has a
\* transaction to apply, and every turn of its loop brings it nearer to its
\* return. It returns nil only when its queue is empty, and it returns at the
\* first error of doApplyTransaction without applying the transactions still
\* queued.
C22_Terminates ==
    [][/\ ReturnsAtFirstError'
       /\ pc' = "loop" => queue' # <<>>
       /\ pc = "loop" => (Variant' < Variant /\ Variant' >= 0)]_vars

\* A call has returned the error of a transaction other than its first one,
\* with a transaction still queued.
C22_Witness ==
    /\ Returned /\ result # "nil"
    /\ Len(applied) >= 2 /\ queue # <<>>


\* C23: however the sync-view handlers interleave, syncer.resolver.Prefer is
\* called only while the resolver prefers nothing, and only with a valid root
\* of a later view than the ledger's: a root that a handler has adopted is
\* not replaced by another handler.
C23_AdoptOnlyWhileNone ==
    \A i \in 1..Len(preferLog) :
        /\ preferLog[i].before = NilTx
        /\ preferLog[i].valid
        /\ preferLog[i].view < preferLog[i].root.ViewID

=============================================================================
